---- MODULE Spec2Model ----
(***************************************************************************)
(* A model of the product-browsing front end: the search widget            *)
(* (src/app/component/Searchbar.tsx), the product list view                *)
(* (src/app/product/Product.tsx) and the proxy endpoint                    *)
(* (src/app/product/route.ts).                                             *)
(*                                                                         *)
(* Strings are sequences of one-character strings, so that trim() and      *)
(* encodeURIComponent() are computed and not assumed.  Time is a clock in  *)
(* milliseconds that the Tick action advances.  The remote catalog is the  *)
(* environment: its answers are chosen nondeterministically.               *)
(***************************************************************************)
EXTENDS Integers, Sequences, FiniteSets

VARIABLES
    \* ---- search widget: React state (Searchbar.tsx:14-18)
    query, results, isLoading, error, isDropdownOpen,
    \* ---- search widget: the debounce closure and the timer table
    timeoutId, timers,
    \* ---- search widget: the network
    requests, inflight,
    \* ---- search widget: clock and history
    now, keys, ev, pre,
    \* ---- product list view: React state (Product.tsx:20-24)
    products, currentPage, totalPages, loading, listError,
    \* ---- product list view: the URL, and the searchParams of the last render
    urlPage, searchParams, mounted,
    \* ---- product list view: the network and the remote catalog
    listRequests, listInflight, total, catalogChanges,
    \* ---- product list view: history
    lev, lpre, succeeded,
    \* ---- proxy endpoint: where GET stands, its request and its response
    proxyPc, proxyQuery, proxyReply,
    \* ---- proxy endpoint: the calls to the remote catalog and the last answer
    received, forwarded, remoteRes

searchVars == <<query, results, isLoading, error, isDropdownOpen,
                timeoutId, timers, requests, inflight, now, keys, ev, pre>>

listVars == <<products, currentPage, totalPages, loading, listError,
              urlPage, searchParams, mounted,
              listRequests, listInflight, total, catalogChanges, lev, lpre,
              succeeded>>

proxyVars == <<proxyPc, proxyQuery, proxyReply, received, forwarded, remoteRes>>

vars == <<searchVars, listVars, proxyVars>>

-----------------------------------------------------------------------------
(* Bounds of the model *)

\* keystrokes (input change events) in one behaviour
MaxKeys == 3
\* the clock stops here
MaxTime == 2500
\* one Tick of the clock, in milliseconds
TickStep == 500
\* products of the remote catalog
CatalogSize == 6
\* listing requests in one behaviour
MaxListRequests == 5
\* times the remote catalog's total changes in one behaviour
MaxCatalogChanges == 1
\* requests the proxy endpoint receives in one behaviour
MaxProxyRequests == 2

-----------------------------------------------------------------------------
(* Program constants *)

\* debounce(..., 1000)
Delay == 1000
\* &limit=5
SearchLimit == 5
\* const productsPerPage = 10
productsPerPage == 10
\* { status: 500 }
ServerError == 500

Null == "null"
SearchErrorMessage == "Error fetching results. Please try again."

-----------------------------------------------------------------------------
(* Strings *)

\* what String.prototype.trim removes (the white space the inputs use)
WhiteSpace == {" ", "\t"}

RECURSIVE TrimStart(_)
TrimStart(s) ==
    IF s = <<>> THEN <<>>
    ELSE IF Head(s) \in WhiteSpace THEN TrimStart(Tail(s))
    ELSE s

RECURSIVE TrimEnd(_)
TrimEnd(s) ==
    IF s = <<>> THEN <<>>
    ELSE IF s[Len(s)] \in WhiteSpace THEN TrimEnd(SubSeq(s, 1, Len(s) - 1))
    ELSE s

\* a mutant of Trim: the term is tested as typed, if (!searchTerm)
TrimNothing(s) == s

\* searchTerm.trim()
Trim(s) == TrimEnd(TrimStart(s))

\* one character of encodeURIComponent: unreserved characters are kept, the
\* others become their percent-encoded UTF-8 byte
EncodeChar(c) ==
    CASE c = " "  -> <<"%", "2", "0">>
      [] c = "\t" -> <<"%", "0", "9">>
      [] c = "%"  -> <<"%", "2", "5">>
      [] OTHER    -> <<c>>

RECURSIVE EncodeURIComponent(_)
EncodeURIComponent(s) ==
    IF s = <<>> THEN <<>>
    ELSE EncodeChar(Head(s)) \o EncodeURIComponent(Tail(s))

\* the remote's reading of the q parameter: the inverse percent-decoding
DecodeTriple(t) ==
    CASE t = <<"%", "2", "0">> -> " "
      [] t = <<"%", "0", "9">> -> "\t"
      [] t = <<"%", "2", "5">> -> "%"
      [] OTHER                 -> "?"

RECURSIVE DecodeURIComponent(_)
DecodeURIComponent(s) ==
    IF s = <<>> THEN <<>>
    ELSE IF Head(s) = "%" /\ Len(s) >= 3
         THEN <<DecodeTriple(SubSeq(s, 1, 3))>>
              \o DecodeURIComponent(SubSeq(s, 4, Len(s)))
    ELSE <<Head(s)>> \o DecodeURIComponent(Tail(s))

-----------------------------------------------------------------------------
(* The environment: what the user types and what the remote answers *)

\* values of the input after a change event
InputValues ==
    { <<>>, <<" ", "\t">>, <<"a">>, <<"%", " ">> }

ProductTitle(n) == IF n % 2 = 1 THEN <<"a">> ELSE <<"a", "b">>

\* interface Product: the fields the widget's behaviour reads
Product(n) == [id |-> n, title |-> ProductTitle(n)]

Catalog == [n \in 1..CatalogSize |-> Product(n)]

Take(s, n) == SubSeq(s, 1, IF n < Len(s) THEN n ELSE Len(s))

\* JSON bodies of a successful search response: with a products array (empty,
\* exactly the limit, or more than the limit asked for) or without one
SearchBodies ==
    { [products |-> Take(Catalog, n)] : n \in {0, SearchLimit, SearchLimit + 1} }
    \cup { [message |-> "no products field"] }

\* what fetch() and response.ok give
SearchResponses ==
    { [kind |-> "ok", body |-> b] : b \in SearchBodies }
    \cup { [kind |-> "http_error", body |-> [message |-> "status"]],
           [kind |-> "network_error", body |-> [message |-> "rejected"]] }

-----------------------------------------------------------------------------
(* The search widget *)

\* the state a handler starts from
SearchSnapshot ==
    [results |-> results, error |-> error, timers |-> timers,
     nreq |-> Len(requests)]

\* a mutant of ClearTimeout: the pending timer is left to run
ClearTimeoutNothing(ts, id) == ts

\* clearTimeout(timeoutId)
ClearTimeout(ts, id) == { t \in ts : t.id # id }

\* setTimeout(() => func(...args), delay): the timer entered in the table
SetTimeout(id, value) == [id |-> id, term |-> value, due |-> now + Delay]

\* `https://dummyjson.com/products/search?q=${encodeURIComponent(searchTerm)}&limit=5`
SearchUrl(searchTerm) ==
    [q |-> EncodeURIComponent(searchTerm), limit |-> SearchLimit]

\* a mutant of ProductsOf: the array is cut to the limit asked for
ProductsOfTruncated(body) ==
    IF "products" \in DOMAIN body THEN Take(body.products, SearchLimit) ELSE <<>>

\* data.products || []
ProductsOf(body) ==
    IF "products" \in DOMAIN body THEN body.products ELSE <<>>

\* the list of results is on screen
ListShown == isDropdownOpen /\ Len(results) > 0 /\ error = Null

\* the error message is on screen
ErrorShown == isDropdownOpen /\ (Len(results) > 0 \/ error # Null) /\ error # Null

\* handleInputChange: setQuery(value); debouncedFetch(value)
HandleInputChange(value) ==
    /\ Len(keys) < MaxKeys
    /\ LET id == Len(keys) + 1 IN
        /\ query' = value
        /\ timers' = ClearTimeout(timers, timeoutId) \cup {SetTimeout(id, value)}
        /\ timeoutId' = id
        /\ keys' = Append(keys, [at |-> now, value |-> value])
        /\ ev' = [op |-> "input", id |-> id, term |-> value, resp |-> Null]
    /\ pre' = SearchSnapshot
    /\ UNCHANGED <<listVars, proxyVars>>
    /\ UNCHANGED <<results, isLoading, error, isDropdownOpen, requests, inflight, now>>

\* fetchSearchResults up to its await: the guard on the trimmed term, the two
\* setters and the fetch
FetchSearchResults(searchTerm, key) ==
    IF Trim(searchTerm) = <<>>
    THEN /\ results' = <<>>
         /\ UNCHANGED <<isLoading, error, requests, inflight>>
    ELSE /\ isLoading' = TRUE
         /\ error' = Null
         /\ requests' = Append(requests,
                [url |-> SearchUrl(searchTerm), at |-> now, key |-> key])
         /\ inflight' = inflight \cup {Len(requests) + 1}
         /\ UNCHANGED results

\* the timer's callback runs: func(...args), that is fetchSearchResults(term)
TimerFires(t) ==
    /\ t \in timers
    /\ t.due <= now
    /\ timers' = timers \ {t}
    /\ FetchSearchResults(t.term, t.id)
    /\ ev' = [op |-> "fire", id |-> t.id, term |-> t.term, resp |-> Null]
    /\ pre' = SearchSnapshot
    /\ UNCHANGED <<listVars, proxyVars>>
    /\ UNCHANGED <<query, isDropdownOpen, timeoutId, now, keys>>

\* a mutant of SearchResponse: a response is applied only when it answers the
\* last request issued
SearchResponseLatestOnly(i, resp) ==
    /\ i \in inflight
    /\ inflight' = inflight \ {i}
    /\ IF i # Len(requests)
       THEN UNCHANGED <<results, isDropdownOpen, error, isLoading>>
       ELSE /\ IF resp.kind = "ok"
               THEN /\ results' = ProductsOf(resp.body)
                    /\ isDropdownOpen' = TRUE
                    /\ UNCHANGED error
               ELSE /\ error' = SearchErrorMessage
                    /\ UNCHANGED <<results, isDropdownOpen>>
            /\ isLoading' = FALSE
    /\ ev' = [op |-> "response", id |-> i, term |-> requests[i].url.q, resp |-> resp]
    /\ pre' = SearchSnapshot
    /\ UNCHANGED <<listVars, proxyVars>>
    /\ UNCHANGED <<query, timeoutId, timers, requests, now, keys>>

\* fetchSearchResults after its await: try, catch and finally
SearchResponse(i, resp) ==
    /\ i \in inflight
    /\ inflight' = inflight \ {i}
    /\ IF resp.kind = "ok"
       THEN /\ results' = ProductsOf(resp.body)
            /\ isDropdownOpen' = TRUE
            /\ UNCHANGED error
       ELSE /\ error' = SearchErrorMessage
            /\ UNCHANGED <<results, isDropdownOpen>>
    /\ isLoading' = FALSE
    /\ ev' = [op |-> "response", id |-> i, term |-> requests[i].url.q, resp |-> resp]
    /\ pre' = SearchSnapshot
    /\ UNCHANGED <<listVars, proxyVars>>
    /\ UNCHANGED <<query, timeoutId, timers, requests, now, keys>>

\* a mutant of SelectResult: the new query is looked up as if it had been typed
SelectResultAndSearch(i) ==
    /\ ListShown
    /\ i \in 1..Len(results)
    /\ query' = results[i].title
    /\ isDropdownOpen' = FALSE
    /\ timers' = timers \cup {SetTimeout(0, results[i].title)}
    /\ ev' = [op |-> "select", id |-> i, term |-> results[i].title, resp |-> Null]
    /\ pre' = SearchSnapshot
    /\ UNCHANGED <<listVars, proxyVars>>
    /\ UNCHANGED <<results, isLoading, error, timeoutId, requests,
                   inflight, now, keys>>

\* the click on a result: the <li>'s onClick, then the document's listener as
\* the click bubbles
SelectResult(i) ==
    /\ ListShown
    /\ i \in 1..Len(results)
    /\ query' = results[i].title
    /\ isDropdownOpen' = FALSE
    /\ ev' = [op |-> "select", id |-> i, term |-> results[i].title, resp |-> Null]
    /\ pre' = SearchSnapshot
    /\ UNCHANGED <<listVars, proxyVars>>
    /\ UNCHANGED <<results, isLoading, error, timeoutId, timers, requests,
                   inflight, now, keys>>

\* handleClickOutside: any other click in the document
HandleClickOutside ==
    /\ isDropdownOpen' = FALSE
    /\ ev' = [op |-> "click", id |-> 0, term |-> <<>>, resp |-> Null]
    /\ pre' = SearchSnapshot
    /\ UNCHANGED <<listVars, proxyVars>>
    /\ UNCHANGED <<query, results, isLoading, error, timeoutId, timers, requests,
                   inflight, now, keys>>

\* time passes
Tick ==
    /\ now + TickStep <= MaxTime
    /\ now' = now + TickStep
    /\ ev' = [op |-> "tick", id |-> 0, term |-> <<>>, resp |-> Null]
    /\ pre' = SearchSnapshot
    /\ UNCHANGED <<listVars, proxyVars>>
    /\ UNCHANGED <<query, results, isLoading, error, isDropdownOpen, timeoutId,
                   timers, requests, inflight, keys>>

SearchInit ==
    /\ query = <<>>
    /\ results = <<>>
    /\ isLoading = FALSE
    /\ error = Null
    /\ isDropdownOpen = FALSE
    /\ timeoutId = 0
    /\ timers = {}
    /\ requests = <<>>
    /\ inflight = {}
    /\ now = 0
    /\ keys = <<>>
    /\ ev = [op |-> "mount", id |-> 0, term |-> <<>>, resp |-> Null]
    /\ pre = [results |-> <<>>, error |-> Null, timers |-> {}, nreq |-> 0]

SearchNext ==
    \/ \E value \in InputValues : HandleInputChange(value)
    \/ \E t \in timers : TimerFires(t)
    \/ \E i \in inflight, resp \in SearchResponses : SearchResponse(i, resp)
    \/ \E i \in 1..Len(results) : SelectResult(i)
    \/ HandleClickOutside
    \/ Tick

-----------------------------------------------------------------------------
(* The product list view: numbers and the URL *)

Digits == <<"0", "1", "2", "3", "4", "5", "6", "7", "8", "9">>

DigitValue(c) == (CHOOSE d \in 1..10 : Digits[d] = c) - 1

\* parseInt(s, 10) of a string of decimal digits
RECURSIVE ParseInt(_)
ParseInt(s) ==
    IF s = <<>> THEN 0
    ELSE 10 * ParseInt(SubSeq(s, 1, Len(s) - 1)) + DigitValue(s[Len(s)])

\* page.toString() of a number >= 0
RECURSIVE ToString(_)
ToString(n) ==
    IF n < 10 THEN <<Digits[n + 1]>>
    ELSE ToString(n \div 10) \o <<Digits[(n % 10) + 1]>>

\* a mutant of MathCeilDiv: Math.floor(a / b)
MathFloorDiv(a, b) == a \div b

\* Math.ceil(a / b) of a >= 0, b > 0
MathCeilDiv(a, b) == (a \div b) + (IF a % b = 0 THEN 0 ELSE 1)

\* the URL's page parameter: absent, or present with a string value
NoParam == [has |-> FALSE, value |-> <<>>]

PageParam(v) == [has |-> TRUE, value |-> v]

\* the URLs the view is opened with: no page parameter, an empty one, and
\* decimal page numbers (one written with a leading zero)
MountUrls ==
    { NoParam, PageParam(<<>>), PageParam(<<"1">>), PageParam(<<"0", "2">>),
      PageParam(<<"3">>), PageParam(<<"9">>), PageParam(<<"1", "0">>) }

\* the totals the remote catalog reports
Totals == {25, 95}

\* a mutant of PageOrDefault: the URL is not read
PageAlwaysDefault(sp) == <<"1">>

\* searchParams.get('page') || '1'
PageOrDefault(sp) == IF sp.has /\ sp.value # <<>> THEN sp.value ELSE <<"1">>

\* a mutant of Skip: the offset of the page after
SkipOfNextPage(page) == page * productsPerPage

\* const skip = (page - 1) * productsPerPage
Skip(page) == (page - 1) * productsPerPage

\* `https://dummyjson.com/products?limit=${productsPerPage}&skip=${skip}`
ListUrl(page) == [limit |-> productsPerPage, skip |-> Skip(page)]

\* the remote's page of product ids for limit, skip and its total
RemotePage(limit, skip, tot) ==
    LET last == IF skip + limit < tot THEN skip + limit ELSE tot
        n    == IF last > skip THEN last - skip ELSE 0
    IN  [k \in 1..n |-> [id |-> skip + k]]

\* JSON bodies of a successful listing response
ListBodies(limit, skip, tot) ==
    { [products |-> RemotePage(limit, skip, tot), total |-> tot],
      [total |-> tot] }

ListResponses(limit, skip, tot) ==
    { [kind |-> "ok", body |-> b] : b \in ListBodies(limit, skip, tot) }
    \cup { [kind |-> "http_error", body |-> [message |-> "Failed to fetch products: 500"]],
           [kind |-> "network_error", body |-> [message |-> "Failed to fetch"]] }

-----------------------------------------------------------------------------
(* The product list view *)

ListSnapshot ==
    [products |-> products, currentPage |-> currentPage,
     totalPages |-> totalPages, loading |-> loading, listError |-> listError,
     urlPage |-> urlPage, nreq |-> Len(listRequests)]

\* the error view with its Retry button is rendered (Product.tsx:81-93)
ErrorViewRendered == listError # Null

\* the pagination <nav> is rendered (Product.tsx:102, 117, 153)
NavRendered == listError = Null /\ ~loading /\ Len(products) > 0

\* fetchProducts up to its await: the two setters and the fetch
FetchProducts(page) ==
    /\ Len(listRequests) < MaxListRequests
    /\ loading' = TRUE
    /\ listError' = Null
    /\ listRequests' = Append(listRequests, [url |-> ListUrl(page), page |-> page])
    /\ listInflight' = listInflight \cup {Len(listRequests) + 1}

\* a mutant of RouterReplace: the URL is left as it was
RouterReplaceNothing(page) == urlPage

\* params.set('page', page.toString()); router.replace(`?${params.toString()}`)
RouterReplace(page) == PageParam(ToString(page))

\* a mutant of ListResponse: the catch block also empties the product set
ListResponseClearsOnFailure(i, resp) ==
    /\ i \in listInflight
    /\ listInflight' = listInflight \ {i}
    /\ IF resp.kind = "ok"
       THEN /\ products' = (IF "products" \in DOMAIN resp.body
                            THEN resp.body.products ELSE <<>>)
            /\ totalPages' = MathCeilDiv(resp.body.total, productsPerPage)
            /\ urlPage' = RouterReplace(listRequests[i].page)
            /\ UNCHANGED listError
       ELSE /\ listError' = resp.body.message
            /\ products' = <<>>
            /\ UNCHANGED <<totalPages, urlPage>>
    /\ loading' = FALSE
    /\ lev' = [op |-> "response", page |-> listRequests[i].page, id |-> i, resp |-> resp]
    /\ lpre' = ListSnapshot
    /\ succeeded' = (succeeded \/ resp.kind = "ok")
    /\ UNCHANGED <<searchVars, proxyVars>>
    /\ UNCHANGED <<currentPage, searchParams, mounted, listRequests, total,
                   catalogChanges>>

\* fetchProducts after its await: try, catch and finally
ListResponse(i, resp) ==
    /\ i \in listInflight
    /\ listInflight' = listInflight \ {i}
    /\ IF resp.kind = "ok"
       THEN /\ products' = (IF "products" \in DOMAIN resp.body
                            THEN resp.body.products ELSE <<>>)
            /\ totalPages' = MathCeilDiv(resp.body.total, productsPerPage)
            /\ urlPage' = RouterReplace(listRequests[i].page)
            /\ UNCHANGED listError
       ELSE /\ listError' = resp.body.message
            /\ UNCHANGED <<products, totalPages, urlPage>>
    /\ loading' = FALSE
    /\ lev' = [op |-> "response", page |-> listRequests[i].page, id |-> i, resp |-> resp]
    /\ lpre' = ListSnapshot
    /\ succeeded' = (succeeded \/ resp.kind = "ok")
    /\ UNCHANGED <<searchVars, proxyVars>>
    /\ UNCHANGED <<currentPage, searchParams, mounted, listRequests, total,
                   catalogChanges>>

\* the effect on [searchParams, fetchProducts]: it runs after the first render
\* and after every render in which useSearchParams gives a new value
UseEffect ==
    /\ ~mounted \/ searchParams # urlPage
    /\ mounted' = TRUE
    /\ searchParams' = urlPage
    /\ LET page == ParseInt(PageOrDefault(urlPage)) IN
        /\ currentPage' = page
        /\ FetchProducts(page)
        /\ lev' = [op |-> "effect", page |-> page, id |-> 0, resp |-> Null]
    /\ lpre' = ListSnapshot
    /\ UNCHANGED <<searchVars, proxyVars>>
    /\ UNCHANGED <<products, totalPages, urlPage, total, catalogChanges, succeeded>>

\* a mutant of handleNext: no guard on the last page
HandleNextUnguarded ==
    /\ NavRendered
    /\ currentPage' = currentPage + 1
    /\ FetchProducts(currentPage + 1)
    /\ lev' = [op |-> "next", page |-> currentPage, id |-> 0, resp |-> Null]
    /\ lpre' = ListSnapshot
    /\ UNCHANGED <<searchVars, proxyVars>>
    /\ UNCHANGED <<products, totalPages, urlPage, searchParams, mounted, total,
                   catalogChanges, succeeded>>

\* paginationHandlers.handleNext, the Next button's onClick
HandleNext ==
    /\ NavRendered
    /\ IF currentPage < totalPages
       THEN /\ currentPage' = currentPage + 1
            /\ FetchProducts(currentPage + 1)
       ELSE UNCHANGED <<currentPage, loading, listError, listRequests, listInflight>>
    /\ lev' = [op |-> "next", page |-> currentPage, id |-> 0, resp |-> Null]
    /\ lpre' = ListSnapshot
    /\ UNCHANGED <<searchVars, proxyVars>>
    /\ UNCHANGED <<products, totalPages, urlPage, searchParams, mounted, total,
                   catalogChanges, succeeded>>

\* a mutant of handlePrevious: no guard on the first page
HandlePreviousUnguarded ==
    /\ NavRendered
    /\ currentPage' = currentPage - 1
    /\ FetchProducts(currentPage - 1)
    /\ lev' = [op |-> "previous", page |-> currentPage, id |-> 0, resp |-> Null]
    /\ lpre' = ListSnapshot
    /\ UNCHANGED <<searchVars, proxyVars>>
    /\ UNCHANGED <<products, totalPages, urlPage, searchParams, mounted, total,
                   catalogChanges, succeeded>>

\* paginationHandlers.handlePrevious, the Previous button's onClick
HandlePrevious ==
    /\ NavRendered
    /\ IF currentPage > 1
       THEN /\ currentPage' = currentPage - 1
            /\ FetchProducts(currentPage - 1)
       ELSE UNCHANGED <<currentPage, loading, listError, listRequests, listInflight>>
    /\ lev' = [op |-> "previous", page |-> currentPage, id |-> 0, resp |-> Null]
    /\ lpre' = ListSnapshot
    /\ UNCHANGED <<searchVars, proxyVars>>
    /\ UNCHANGED <<products, totalPages, urlPage, searchParams, mounted, total,
                   catalogChanges, succeeded>>

\* the Retry button's onClick: fetchProducts(currentPage)
Retry ==
    /\ ErrorViewRendered
    /\ FetchProducts(currentPage)
    /\ lev' = [op |-> "retry", page |-> currentPage, id |-> 0, resp |-> Null]
    /\ lpre' = ListSnapshot
    /\ UNCHANGED <<searchVars, proxyVars>>
    /\ UNCHANGED <<products, currentPage, totalPages, urlPage, searchParams,
                   mounted, total, catalogChanges, succeeded>>

\* the remote catalog gains or loses products
CatalogChanges ==
    /\ catalogChanges < MaxCatalogChanges
    /\ catalogChanges' = catalogChanges + 1
    /\ \E t \in Totals \ {total} : total' = t
    /\ UNCHANGED <<products, currentPage, totalPages, loading, listError, urlPage,
                   searchParams, mounted, listRequests, listInflight, lev, lpre,
                   succeeded>>
    /\ UNCHANGED <<searchVars, proxyVars>>

\* the view after its first render, opened with the URL u
ListInitWith(u) ==
    /\ products = <<>>
    /\ currentPage = 1
    /\ totalPages = 1
    /\ loading = FALSE
    /\ listError = Null
    /\ urlPage = u
    /\ searchParams = u
    /\ mounted = FALSE
    /\ listRequests = <<>>
    /\ listInflight = {}
    /\ catalogChanges = 0
    /\ succeeded = FALSE
    /\ lev = [op |-> "render", page |-> 1, id |-> 0, resp |-> Null]
    /\ lpre = [products |-> <<>>, currentPage |-> 1, totalPages |-> 1,
               loading |-> FALSE, listError |-> Null, urlPage |-> u, nreq |-> 0]

ListInit == \E u \in MountUrls : ListInitWith(u) /\ total \in Totals

ListNext ==
    \/ UseEffect
    \/ \E i \in listInflight :
         \E resp \in ListResponses(listRequests[i].url.limit,
                                   listRequests[i].url.skip, total) :
            ListResponse(i, resp)
    \/ HandleNext
    \/ HandlePrevious
    \/ Retry
    \/ CatalogChanges

-----------------------------------------------------------------------------
(* The proxy endpoint (route.ts) *)

\* the query strings GET is called with: page and limit each absent, empty
\* or a decimal number
ProxyQueries ==
    [page  : { NoParam, PageParam(<<>>), PageParam(<<"1">>), PageParam(<<"2">>),
               PageParam(<<"1", "0">>) },
     limit : { NoParam, PageParam(<<>>), PageParam(<<"5">>),
               PageParam(<<"1", "0">>) }]

\* searchParams.get(name) || fallback
ParamOrDefault(param, fallback) ==
    IF param.has /\ param.value # <<>> THEN param.value ELSE fallback

\* Number(s) of a string of decimal digits
NumberOf(s) == ParseInt(s)

\* a mutant of ProxySkip: the page size of the list view, whatever the limit
ProxySkipOfTen(page, limit) == (NumberOf(page) - 1) * productsPerPage

\* const skip = (Number(page) - 1) * Number(limit)
ProxySkip(page, limit) == (NumberOf(page) - 1) * NumberOf(limit)

\* `https://dummyjson.com/products?limit=${limit}&skip=${skip}`
ProxyUrl(limit, skip) == [limit |-> limit, skip |-> skip]

\* what the forwarded fetch gives: a response (ok or not) whose body is JSON,
\* a response whose body is not JSON, or a rejection
RemoteResults(url, tot) ==
    { [kind |-> "json", ok |-> TRUE,
       body |-> [products |-> RemotePage(NumberOf(url.limit), url.skip, tot),
                 total |-> tot, skip |-> url.skip, limit |-> NumberOf(url.limit)]],
      [kind |-> "json", ok |-> FALSE, body |-> [message |-> "Internal Server Error"]],
      [kind |-> "not_json", ok |-> TRUE, body |-> [text |-> "<html>"]],
      [kind |-> "not_json", ok |-> FALSE, body |-> [text |-> "Bad Gateway"]],
      [kind |-> "network_error", ok |-> FALSE, body |-> [message |-> "fetch failed"]] }

\* NextResponse.json(data): the status is 200 unless one is given
NextResponseJson(data) == [status |-> 200, body |-> data]

\* NextResponse.json({ error: 'Failed to fetch products' }, { status: 500 })
NextResponseError ==
    [status |-> ServerError, body |-> [error |-> "Failed to fetch products"]]

\* GET up to its first await: the parameters, the offset and the fetch
GET(request) ==
    /\ proxyPc # "awaiting"
    /\ received < MaxProxyRequests
    /\ received' = received + 1
    /\ proxyQuery' = request
    /\ LET page  == ParamOrDefault(request.page, <<"1">>)
           limit == ParamOrDefault(request.limit, <<"1", "0">>)
           skip  == ProxySkip(page, limit)
       IN  forwarded' = Append(forwarded, ProxyUrl(limit, skip))
    /\ proxyPc' = "awaiting"
    /\ UNCHANGED <<proxyReply, remoteRes>>
    /\ UNCHANGED <<searchVars, listVars>>

\* GET after its awaits: fetch rejects or res.json() throws (catch), or the
\* parsed body is returned
GETReturns(res) ==
    /\ proxyPc = "awaiting"
    /\ remoteRes' = res
    /\ proxyReply' = (IF res.kind = "json"
                      THEN NextResponseJson(res.body)
                      ELSE NextResponseError)
    /\ proxyPc' = "returned"
    /\ UNCHANGED <<proxyQuery, received, forwarded>>
    /\ UNCHANGED <<searchVars, listVars>>

\* the endpoint before its first request
ProxyInit ==
    /\ proxyPc = "idle"
    /\ proxyQuery = [page |-> NoParam, limit |-> NoParam]
    /\ proxyReply = NextResponseJson([message |-> "none"])
    /\ received = 0
    /\ forwarded = <<>>
    /\ remoteRes = [kind |-> "none", ok |-> FALSE, body |-> [message |-> "none"]]

ProxyNext ==
    \/ \E request \in ProxyQueries : GET(request)
    \/ /\ proxyPc = "awaiting"
       /\ \E res \in RemoteResults(forwarded[Len(forwarded)], total) : GETReturns(res)

-----------------------------------------------------------------------------
(* Specifications: each component owns its state (page.tsx renders the     *)
(* widget and the list; the endpoint is served on its own)                 *)

SearchSpecInit == SearchInit /\ ListInitWith(NoParam) /\ total = 95 /\ ProxyInit

ListSpecInit == ListInit /\ SearchInit /\ ProxyInit

ProxySpecInit ==
    /\ ProxyInit
    /\ SearchInit
    /\ ListInitWith(NoParam)
    /\ total \in Totals

SearchSpec ==
    /\ SearchSpecInit
    /\ [][SearchNext]_vars

ListSpec ==
    /\ ListSpecInit
    /\ [][ListNext]_vars

ProxySpec ==
    /\ ProxySpecInit
    /\ [][ProxyNext]_vars

-----------------------------------------------------------------------------
(* Notions the properties of the search widget are stated with *)

\* a string with nothing but white space in it
IsBlank(s) == \A n \in 1..Len(s) : s[n] \in WhiteSpace

\* the requests issued by the lookup that keystroke k scheduled
RequestsOfKey(k) == { i \in 1..Len(requests) : requests[i].key = k }

\* keystroke k was followed by another one less than Delay later
FollowedInWindow(k) == k < Len(keys) /\ keys[k + 1].at < keys[k].at + Delay

SearchFailed == ev.op = "response" /\ ev.resp.kind # "ok"

SearchSucceeded == ev.op = "response" /\ ev.resp.kind = "ok"

-----------------------------------------------------------------------------
(* C1: trailing debounce.  Every search request belongs to one keystroke,  *)
(* carries the value of that keystroke, is issued Delay or more after it   *)
(* and before any later keystroke; a keystroke followed by another within  *)
(* the window never issues a request (its lookup was cancelled), at most   *)
(* one lookup is pending, and once no lookup is pending the last keystroke *)
(* of a burst that ended on a non-blank value has issued exactly one       *)
(* request.                                                                *)
C1_DebounceOneRequestPerBurst ==
    /\ \A i \in 1..Len(requests) :
        LET r == requests[i]
            k == keys[r.key]
        IN  /\ r.at >= k.at + Delay
            /\ DecodeURIComponent(r.url.q) = k.value
            /\ r.key < Len(keys) => keys[r.key + 1].at >= r.at
    /\ \A k \in 1..Len(keys) :
        /\ Cardinality(RequestsOfKey(k)) <= 1
        /\ FollowedInWindow(k) => RequestsOfKey(k) = {}
    /\ Cardinality(timers) <= 1
    /\ \A t \in timers : t.id = Len(keys) /\ t.term = keys[t.id].value
    /\ (timers = {} /\ keys # <<>> /\ ~IsBlank(keys[Len(keys)].value))
          => Cardinality(RequestsOfKey(Len(keys))) = 1

\* a burst of two keystrokes half a window apart has issued its one request
C1_Witness ==
    /\ Len(keys) = 2
    /\ keys[1].at < keys[2].at
    /\ keys[2].at < keys[1].at + Delay
    /\ keys[1].value # keys[2].value
    /\ ~IsBlank(keys[1].value)
    /\ Len(requests) = 1
    /\ requests[1].key = 2
    /\ timers = {}

(* C2: a lookup that fires with an empty or blank term issues no request   *)
(* and leaves the results list empty, whatever it held.                    *)
C2_BlankLookupClearsResults ==
    /\ (ev.op = "fire" /\ IsBlank(ev.term)) =>
            /\ results = <<>>
            /\ Len(requests) = pre.nreq
    /\ \A i \in 1..Len(requests) : ~IsBlank(DecodeURIComponent(requests[i].url.q))

\* a blank lookup has just cleared a list that held results
C2_Witness ==
    /\ ev.op = "fire"
    /\ ev.term = <<" ", "\t">>
    /\ pre.results # <<>>
    /\ results = <<>>

(* C3: after a failed lookup the error message is set and the results list *)
(* is empty.                                                               *)
C3_FailedLookupLeavesNoResults ==
    SearchFailed => (error = SearchErrorMessage /\ results = <<>>)

(* C4: right after a failed lookup the error message is on screen.         *)
C4_FailedLookupShowsError ==
    SearchFailed => ErrorShown

(* C5: every search request asks for limit=5; a successful response sets   *)
(* the results list to the products of its body (none when the body has no *)
(* products field), at most 5 when the body holds no more than the limit,  *)
(* and opens the dropdown.                                                 *)
C5_SuccessSetsResults ==
    /\ \A i \in 1..Len(requests) : requests[i].url.limit = 5
    /\ SearchSucceeded =>
        LET body == ev.resp.body IN
        /\ results = (IF "products" \in DOMAIN body THEN body.products ELSE <<>>)
        /\ isDropdownOpen
        /\ ("products" \in DOMAIN body /\ Len(body.products) <= 5) => Len(results) <= 5

\* a response with exactly five products is in the list and the list is open
C5_Witness ==
    /\ SearchSucceeded
    /\ Len(results) = 5
    /\ ListShown

(* C6: selecting an entry of the list puts its title in the input and      *)
(* closes the dropdown; results, error, the pending lookup and the         *)
(* requests issued are as they were.                                       *)
C6_SelectCopiesTitleAndCloses ==
    ev.op = "select" =>
        /\ query = pre.results[ev.id].title
        /\ ~isDropdownOpen
        /\ results = pre.results
        /\ error = pre.error
        /\ timers = pre.timers
        /\ Len(requests) = pre.nreq

\* the second entry was selected while the widget showed another query
C6_Witness ==
    /\ ev.op = "select"
    /\ ev.id = 2
    /\ query = <<"a", "b">>
    /\ keys[Len(keys)].value # query
    /\ ~isDropdownOpen

-----------------------------------------------------------------------------
(* Notions the properties of the product list view are stated with *)

ListSucceeded == lev.op = "response" /\ lev.resp.kind = "ok"

ListFailed == lev.op = "response" /\ lev.resp.kind # "ok"

\* the last handler issued a listing request
IssuedRequest == Len(listRequests) = lpre.nreq + 1

LastListRequest == listRequests[Len(listRequests)]

\* nothing of the view changed in the last step
ListUnchanged ==
    /\ currentPage = lpre.currentPage
    /\ products = lpre.products
    /\ totalPages = lpre.totalPages
    /\ loading = lpre.loading
    /\ listError = lpre.listError
    /\ urlPage = lpre.urlPage
    /\ Len(listRequests) = lpre.nreq

(* C8: every listing request, whether the effect, Next, Previous or Retry  *)
(* issued it, asks for limit 10 and skip (p - 1) * 10 of the page p it was *)
(* issued for, and that page is the current page; page 10 gives skip 90.   *)
C8_RequestLimitAndSkip ==
    /\ \A i \in 1..Len(listRequests) :
        /\ listRequests[i].url.limit = 10
        /\ listRequests[i].url.skip = (listRequests[i].page - 1) * 10
        /\ listRequests[i].page = 10 => listRequests[i].url.skip = 90
    /\ (lev.op \in {"effect", "next", "previous", "retry"} /\ IssuedRequest)
          => LastListRequest.page = currentPage

\* with total = 95 page 10 of 10 was asked for with skip 90 and is shown
C8_Witness ==
    /\ ListSucceeded
    /\ total = 95
    /\ totalPages = 10
    /\ lev.page = 10
    /\ listRequests[lev.id].url = [limit |-> 10, skip |-> 90]
    /\ Len(products) = 5

C10_UrlFollowsSuccess ==
    /\ urlPage # lpre.urlPage => ListSucceeded
    /\ ListSucceeded =>
        /\ urlPage.has
        /\ urlPage.value # <<>>
        /\ ParseInt(urlPage.value) = lev.page
        /\ Len(urlPage.value) > 1 => urlPage.value[1] # "0"
    /\ (lev.op \in {"effect", "next", "previous", "retry"} \/ ListFailed)
          => urlPage = lpre.urlPage

\* Next from page 1 succeeded and the URL went from page=1 to page=2
C10_Witness ==
    /\ ListSucceeded
    /\ lev.page = 2
    /\ lpre.urlPage = PageParam(<<"1">>)
    /\ urlPage = PageParam(<<"2">>)

(* C11: after a failed page fetch the error view is rendered and the page  *)
(* Retry would fetch, currentPage, is the page of the fetch that failed;   *)
(* while the error is set only Retry issues a listing request, and it asks *)
(* for that page.                                                          *)
C11_ErrorWaitsForRetry ==
    /\ ListFailed =>
        /\ ErrorViewRendered
        /\ currentPage = lev.page
    /\ (IssuedRequest /\ lpre.listError # Null) =>
        /\ lev.op = "retry"
        /\ LastListRequest.page = lpre.currentPage

(* C12: a successful page fetch replaces the product set by the products   *)
(* of the response (none when the body has no products field) and sets     *)
(* totalPages to the least number of pages of 10 that hold the response's  *)
(* total; a total of 95 gives 10 pages.                                    *)
C12_SuccessReplacesProductsAndPages ==
    ListSucceeded =>
        LET body == lev.resp.body IN
        /\ products = (IF "products" \in DOMAIN body THEN body.products ELSE <<>>)
        /\ totalPages * 10 >= body.total
        /\ (totalPages - 1) * 10 < body.total
        /\ body.total = 95 => totalPages = 10

\* page 2 of a catalog of 95 replaced page 1, and the page count is 10
C12_Witness ==
    /\ ListSucceeded
    /\ lev.resp.body.total = 95
    /\ totalPages = 10
    /\ lpre.totalPages = 10
    /\ Len(lpre.products) = 10
    /\ lpre.products[1].id = 1
    /\ Len(products) = 10
    /\ products[1].id = 11

(* C13: whenever a listing request is outstanding the loading flag is true *)
(* and the pagination controls are not rendered, and Next, Previous start  *)
(* a fetch only when none is outstanding.                                  *)
C13_LoadingWhileOutstanding ==
    /\ listInflight # {} => (loading /\ ~NavRendered)
    /\ (lev.op \in {"next", "previous"} /\ IssuedRequest)
          => Cardinality(listInflight) = 1

(* C16: no listing request is issued before the effect runs on mount; that *)
(* first run sets currentPage to the number the URL's page parameter       *)
(* spells, or to 1 when the URL has no page parameter (or an empty one),   *)
(* and issues the first listing request, which is for that page.           *)
C16_MountReadsPageFromUrl ==
    /\ ~mounted => listRequests = <<>>
    /\ mounted => Len(listRequests) >= 1
    /\ (lev.op = "effect" /\ lpre.nreq = 0) =>
        LET url == lpre.urlPage IN
        /\ currentPage = (IF url.has /\ url.value # <<>>
                          THEN ParseInt(url.value) ELSE 1)
        /\ ~url.has => currentPage = 1
        /\ Len(listRequests) = 1
        /\ listRequests[1].page = currentPage
        /\ urlPage = url

\* the view was opened with ?page=3 and its first request is for page 3
C16_Witness ==
    /\ lev.op = "effect"
    /\ lpre.nreq = 0
    /\ urlPage = PageParam(<<"3">>)
    /\ currentPage = 3
    /\ lpre.currentPage = 1
    /\ listRequests = <<[url |-> [limit |-> 10, skip |-> 20], page |-> 3]>>

(* C17: a page load takes one listing request: the URL rewrite of a        *)
(* successful fetch leaves no run of the URL-reading effect due, and the   *)
(* effect issues a request only on mount.                                  *)
C17_OneRequestPerPageLoad ==
    /\ ListSucceeded => searchParams = urlPage
    /\ lev.op = "effect" => lpre.nreq = 0

-----------------------------------------------------------------------------
(* Further properties of the search widget *)

(* C18: the loading flag of the search widget is true exactly when at      *)
(* least one search request is in flight.                                  *)
C18_LoadingIffInFlight ==
    isLoading <=> inflight # {}

(* C19: after the user selects a result or clicks outside, every step      *)
(* other than a new input change leaves the dropdown off the screen and    *)
(* the results as they were.                                               *)
C19_ClosedUntilTyping ==
    [][ (ev.op \in {"select", "click"} /\ ev'.op # "input")
            => (~ListShown' /\ ~ErrorShown' /\ results' = results) ]_vars

-----------------------------------------------------------------------------
(* Properties of the proxy endpoint *)

\* the forwarded call failed: it was rejected, or its status was not a success
RemoteFailed == remoteRes.kind = "network_error" \/ ~remoteRes.ok

(* C14: whenever the forwarded call fails, by rejection or by a            *)
(* non-success status of the remote catalog, GET responds with status 500  *)
(* and the payload { error: 'Failed to fetch products' }.                  *)
C14_FailureGivesGenericError ==
    (proxyPc = "returned" /\ RemoteFailed) =>
        /\ proxyReply.status = 500
        /\ proxyReply.body = [error |-> "Failed to fetch products"]

(* C15: every GET forwards exactly one request; its limit is the limit     *)
(* parameter, 10 when absent, and its skip is (page - 1) * limit with page *)
(* the page parameter, 1 when absent; when the remote answers with success *)
(* and a JSON body, GET returns that body as it is, with status 200.       *)
C15_ForwardsLimitAndSkip ==
    /\ Len(forwarded) = received
    /\ proxyPc # "idle" =>
        LET q == proxyQuery
            f == forwarded[Len(forwarded)]
            p == IF q.page.has /\ q.page.value # <<>> THEN ParseInt(q.page.value) ELSE 1
            l == IF q.limit.has /\ q.limit.value # <<>> THEN ParseInt(q.limit.value) ELSE 10
        IN  /\ ParseInt(f.limit) = l
            /\ f.skip = (p - 1) * l
    /\ (proxyPc = "returned" /\ remoteRes.kind = "json" /\ remoteRes.ok) =>
        /\ proxyReply.status = 200
        /\ proxyReply.body = remoteRes.body

\* page=2 and limit=5 were forwarded as limit=5, skip=5 and the remote's five
\* products came back unchanged
C15_Witness ==
    /\ proxyPc = "returned"
    /\ proxyQuery = [page |-> PageParam(<<"2">>), limit |-> PageParam(<<"5">>)]
    /\ forwarded[Len(forwarded)] = [limit |-> <<"5">>, skip |-> 5]
    /\ remoteRes.kind = "json"
    /\ remoteRes.ok
    /\ proxyReply.status = 200
    /\ Len(proxyReply.body.products) = 5
    /\ proxyReply.body.products[1].id = 6
    /\ proxyReply.body.total = total

-----------------------------------------------------------------------------
(* The page range of the product list view *)

\* the view was opened on a page the catalog has (no page parameter counts
\* as page 1), and the catalog's total has not changed since
ValidMountUnchangedCatalog ==
    /\ catalogChanges = 0
    /\ total >= 1
    /\ Len(listRequests) >= 1
    /\ listRequests[1].page >= 1
    /\ (listRequests[1].page - 1) * 10 < total

(* C21: after a mount on a page the catalog has, with a total that does    *)
(* not change, whatever Next, Previous, Retry and fetch completions        *)
(* followed: whenever no listing request is outstanding and some fetch has *)
(* succeeded, 1 <= currentPage <= totalPages.                              *)
C21_CurrentPageInRange ==
    (ValidMountUnchangedCatalog /\ listInflight = {} /\ succeeded) =>
        /\ 1 <= currentPage
        /\ currentPage <= totalPages

\* opened with ?page=02 of a catalog of 25: page 2 loaded, Next to the last
\* page 3 failed, and nothing is outstanding
C21_Witness ==
    /\ ValidMountUnchangedCatalog
    /\ listInflight = {}
    /\ succeeded
    /\ ListFailed
    /\ listRequests[1].page = 2
    /\ total = 25
    /\ currentPage = 3
    /\ totalPages = 3
    /\ lpre.currentPage = 3
    /\ urlPage = PageParam(<<"2">>)

====
